---- MODULE Spec2Model ----
(***************************************************************************)
(* Qomo pricing engine (services/pricingEngine.ts) behind the in-memory    *)
(* API adapter (services/api.ts): one product's DropState, the viewing     *)
(* lock, the FIFO queue and the purchase settlement.                       *)
(*                                                                         *)
(* Money is a fixed-point integer counted in 1/100 of a cent, so that      *)
(* roundMoney is a real quantisation and not the identity.  Shares are in  *)
(* percent.  Floating-point representation error is not modelled: every    *)
(* product and sum is exact before roundMoney rounds it half-up.           *)
(* Date.now() is the variable now; it never runs backwards.                *)
(***************************************************************************)
EXTENDS Integers, Sequences, FiniteSets, TLC

\* ------------------------------------------------------------------ bounds
MaxViews == 3
MaxTicks == 3
MaxStoreViews == 2

\* --------------------------------------------------------------- constants
LOCK_DURATION == 30000
Cent == 100
Percent == 100
NullTime == 0
NoPrice == 0 - 1
NoPosition == 0
Dollar == 100 * Cent
TickStep == LOCK_DURATION \div 2

Null == "null"
NoError == "none"
ErrSold == "Product is already sold."
ErrLocked == "Product is currently locked by another user."

\* viewer ids as getViewerId / the simulation produce them: non-empty strings
Actors == {"viewer_1", "viewer_2", "viewer_3"}

\* ----------------------------------------------------------------- configs
DropConfig(base, fee, dropShare, platShare, supShare, qomoShare, min) ==
  [basePrice |-> base, viewingFee |-> fee, priceDropShare |-> dropShare,
   platformShare |-> platShare, supplierShareOfPlatform |-> supShare,
   qomoShareOfPlatform |-> qomoShare, minPrice |-> min]

\* the reference product of the specification: 1100 / 5 / .8 / .2 / .25 / .75 / 1000
CfgReference == DropConfig(1100 * Dollar, 5 * Dollar, 80, 20, 25, 75, 1000 * Dollar)
\* the floor is reached on the second view
CfgFloor == DropConfig(10 * Dollar, 5 * Dollar, 80, 20, 25, 75, 5 * Dollar)
\* a catalog entry whose floor lies above its base price
CfgInverted == DropConfig(9 * Dollar, 5 * Dollar, 80, 20, 25, 75, 10 * Dollar)
\* base price and floor carry a fraction of a cent (10.996 and 5.004)
CfgSubCent == DropConfig(10 * Dollar + 9960, 5 * Dollar, 80, 20, 25, 75, 5 * Dollar + 40)
\* a fee of five cents: the platform revenue of one cent is split 50 / 50
CfgSplit == DropConfig(1 * Dollar, 5 * Cent, 80, 20, 50, 50, 90 * Cent)

Configs == {CfgReference, CfgFloor, CfgInverted, CfgSubCent, CfgSplit}

VARIABLES
  config,   \* configs.get(productId)
  state,    \* db.get(productId)
  now,      \* Date.now()
  last,     \* the last call and the value it returned
  held,     \* history: per actor, the expiry of the lock last granted to it and not given up
  ticket,   \* history: per actor, the order number of its place in the queue (0: not waiting)
  tickets,  \* history: number of queue places handed out so far
  shares,   \* history: sum, over the grants so far, of supplierShare + qomoShare
  pendingHead, \* history: head of the queue when the holder released, until the next grant or sale
  charges,  \* history: number of LOCKED results returned with a fee
  leftWaiting, \* history: the actors that were waiting when the product was sold
  gaveUp    \* history: the actors that released their lock and were not granted one since

\* the state store with several products (services/api.ts)
VARIABLES
  db,       \* productId -> stored DropState
  folded,   \* history: productId -> the engine functions folded over that product's calls
  call      \* the last call made to the store

\* callers whose load, compute and store are separate steps
VARIABLES
  atomic,   \* whether a call excludes every other call from load to store
  pc,       \* per caller: "idle", "loaded" (state read, result not stored yet) or "done"
  loaded,   \* per caller: the DropState it read
  returned, \* per caller: the ViewEventResult it got
  raced     \* history: both callers read the same unsold, unlocked, queue-less state

engineVars == <<config, state, last, held, ticket, tickets, shares, pendingHead,
                charges, leftWaiting, gaveUp>>
storeVars == <<db, folded, call>>
raceVars == <<atomic, pc, loaded, returned, raced>>

vars == <<now, engineVars, storeVars, raceVars>>

\* ----------------------------------------------------------------- helpers
Range(s) == {s[i] : i \in 1..Len(s)}

\* Math.round((amount + Number.EPSILON) * 100) / 100 : nearest cent, halves up
roundMoney(amount) == Cent * ((amount + (Cent \div 2)) \div Cent)

\* amount * share, the share being a fraction written in percent
Times(amount, share) == (amount * share) \div Percent

\* Array.prototype.includes
Includes(queue, viewerId) == viewerId \in Range(queue)

\* Array.prototype.indexOf, 0-based, -1 when absent
IndexOf(queue, viewerId) ==
  IF Includes(queue, viewerId)
    THEN (CHOOSE i \in 1..Len(queue) :
            queue[i] = viewerId /\ \A j \in 1..(i-1) : queue[j] # viewerId) - 1
    ELSE 0 - 1

\* ------------------------------------------------------------------ engine
\* initDrop
initDrop(cfg) ==
  [currentPrice |-> roundMoney(cfg.basePrice),
   isSold |-> FALSE,
   totalViews |-> 0,
   buyerId |-> Null,
   soldPrice |-> NoPrice,
   activeViewerId |-> Null,
   activeViewExpiresAt |-> NullTime,
   queue |-> <<>>,
   totalPlatformRevenue |-> 0,
   totalSupplierPlatformRevenue |-> 0,
   totalQomoRevenue |-> 0]

\* a lock test that compares the expiry the wrong way round
isLockedReversed(s, at) ==
  /\ s.activeViewerId # Null
  /\ s.activeViewExpiresAt # NullTime
  /\ s.activeViewExpiresAt < at

\* a lock test that still counts the instant of expiry as locked
isLockedInclusive(s, at) ==
  /\ s.activeViewerId # Null
  /\ s.activeViewExpiresAt # NullTime
  /\ s.activeViewExpiresAt >= at

\* const isLocked = activeViewerId && activeViewExpiresAt && activeViewExpiresAt > now
isLocked(s, at) ==
  /\ s.activeViewerId # Null
  /\ s.activeViewExpiresAt # NullTime
  /\ s.activeViewExpiresAt > at

\* a poll by the holder that starts a new window
holderPollExtends(s, at) ==
  [success |-> TRUE, status |-> "LOCKED", expiresAt |-> at + LOCK_DURATION,
   queuePosition |-> NoPosition, dropAmount |-> 0, newPrice |-> s.currentPrice,
   feeCharged |-> 0,
   state |-> [s EXCEPT !.activeViewExpiresAt = at + LOCK_DURATION],
   error |-> NoError]

\* the caller already holds the lock: nothing is charged, nothing changes
holderPoll(s, at) ==
  [success |-> TRUE, status |-> "LOCKED", expiresAt |-> s.activeViewExpiresAt,
   queuePosition |-> NoPosition, dropAmount |-> 0, newPrice |-> s.currentPrice,
   feeCharged |-> 0, state |-> s, error |-> NoError]

\* a queue that puts the newcomer in front
enqueueFront(queue, viewerId) ==
  IF Includes(queue, viewerId) THEN queue ELSE <<viewerId>> \o queue

\* let newQueue = [...queue]; if (!newQueue.includes(viewerId)) newQueue.push(viewerId)
enqueue(queue, viewerId) ==
  IF Includes(queue, viewerId) THEN queue ELSE Append(queue, viewerId)

\* a QUEUED result that reports the 0-based index
queuedZeroBased(s, newState, viewerId) ==
  [success |-> FALSE, status |-> "QUEUED", expiresAt |-> NullTime,
   queuePosition |-> IndexOf(newState.queue, viewerId),
   dropAmount |-> 0, newPrice |-> s.currentPrice, feeCharged |-> 0,
   state |-> newState, error |-> NoError]

\* the QUEUED result for a given new state
queued(s, newState, viewerId) ==
  [success |-> FALSE, status |-> "QUEUED", expiresAt |-> NullTime,
   queuePosition |-> IndexOf(newState.queue, viewerId) + 1,
   dropAmount |-> 0, newPrice |-> s.currentPrice, feeCharged |-> 0,
   state |-> newState, error |-> NoError]

\* queueing behind an active lock that wipes the lock fields, as the stale path does
queueBehindLockClearsLock(s, viewerId) ==
  queued(s, [s EXCEPT !.activeViewerId = Null,
                      !.activeViewExpiresAt = NullTime,
                      !.queue = enqueue(s.queue, viewerId)], viewerId)

\* locked by someone else: queue the caller, lock fields untouched
queueBehindLock(s, viewerId) ==
  queued(s, [s EXCEPT !.queue = enqueue(s.queue, viewerId)], viewerId)

\* queueing behind the head that leaves the expired lock fields where they are
queueBehindHeadKeepsStale(s, viewerId) ==
  queued(s, [s EXCEPT !.queue = enqueue(s.queue, viewerId)], viewerId)

\* no active lock, but the head of the queue is somebody else
queueBehindHead(s, viewerId) ==
  queued(s, [s EXCEPT !.activeViewerId = Null,
                      !.activeViewExpiresAt = NullTime,
                      !.queue = enqueue(s.queue, viewerId)], viewerId)

\* a price drop computed from the platform's share of the fee
priceDropFromPlatformShare(cfg) == roundMoney(Times(cfg.viewingFee, cfg.platformShare))

priceDropAmount(cfg) == roundMoney(Times(cfg.viewingFee, cfg.priceDropShare))
platformRevenue(cfg) == roundMoney(Times(cfg.viewingFee, cfg.platformShare))
supplierShare(cfg) == roundMoney(Times(platformRevenue(cfg), cfg.supplierShareOfPlatform))
qomoShare(cfg) == roundMoney(Times(platformRevenue(cfg), cfg.qomoShareOfPlatform))

\* let nextPrice = currentPrice - priceDropAmount; clamp to minPrice; roundMoney
nextPrice(s, cfg) ==
  LET raw == s.currentPrice - priceDropAmount(cfg)
  IN  roundMoney(IF raw < cfg.minPrice THEN cfg.minPrice ELSE raw)

\* a grant that leaves the caller in the queue
dequeueNothing(queue, viewerId) == queue

\* state.queue.filter(id => id !== viewerId)
dequeue(queue, viewerId) == SelectSeq(queue, LAMBDA id : id # viewerId)

\* a grant that forgets to accrue the supplier's share
grantLockKeepsSupplierTotal(s, cfg, viewerId, at) ==
  LET newState ==
        [s EXCEPT !.currentPrice = nextPrice(s, cfg),
                  !.totalViews = s.totalViews + 1,
                  !.totalPlatformRevenue =
                      roundMoney(s.totalPlatformRevenue + platformRevenue(cfg)),
                  !.totalQomoRevenue =
                      roundMoney(s.totalQomoRevenue + qomoShare(cfg)),
                  !.activeViewerId = viewerId,
                  !.activeViewExpiresAt = at + LOCK_DURATION,
                  !.queue = dequeue(s.queue, viewerId)]
  IN  [success |-> TRUE, status |-> "LOCKED",
       expiresAt |-> newState.activeViewExpiresAt,
       queuePosition |-> NoPosition,
       dropAmount |-> roundMoney(s.currentPrice - newState.currentPrice),
       newPrice |-> newState.currentPrice,
       feeCharged |-> cfg.viewingFee,
       state |-> newState, error |-> NoError]

\* a grant whose window is measured from the previous expiry
grantLockFromOldExpiry(s, cfg, viewerId, at) ==
  LET newState ==
        [s EXCEPT !.currentPrice = nextPrice(s, cfg),
                  !.totalViews = s.totalViews + 1,
                  !.totalPlatformRevenue =
                      roundMoney(s.totalPlatformRevenue + platformRevenue(cfg)),
                  !.totalSupplierPlatformRevenue =
                      roundMoney(s.totalSupplierPlatformRevenue + supplierShare(cfg)),
                  !.totalQomoRevenue =
                      roundMoney(s.totalQomoRevenue + qomoShare(cfg)),
                  !.activeViewerId = viewerId,
                  !.activeViewExpiresAt = s.activeViewExpiresAt + LOCK_DURATION,
                  !.queue = dequeue(s.queue, viewerId)]
  IN  [success |-> TRUE, status |-> "LOCKED",
       expiresAt |-> newState.activeViewExpiresAt,
       queuePosition |-> NoPosition,
       dropAmount |-> roundMoney(s.currentPrice - newState.currentPrice),
       newPrice |-> newState.currentPrice,
       feeCharged |-> cfg.viewingFee,
       state |-> newState, error |-> NoError]

\* GRANT LOCK & APPLY DROP
grantLock(s, cfg, viewerId, at) ==
  LET newState ==
        [s EXCEPT !.currentPrice = nextPrice(s, cfg),
                  !.totalViews = s.totalViews + 1,
                  !.totalPlatformRevenue =
                      roundMoney(s.totalPlatformRevenue + platformRevenue(cfg)),
                  !.totalSupplierPlatformRevenue =
                      roundMoney(s.totalSupplierPlatformRevenue + supplierShare(cfg)),
                  !.totalQomoRevenue =
                      roundMoney(s.totalQomoRevenue + qomoShare(cfg)),
                  !.activeViewerId = viewerId,
                  !.activeViewExpiresAt = at + LOCK_DURATION,
                  !.queue = dequeue(s.queue, viewerId)]
  IN  [success |-> TRUE, status |-> "LOCKED",
       expiresAt |-> newState.activeViewExpiresAt,
       queuePosition |-> NoPosition,
       dropAmount |-> roundMoney(s.currentPrice - newState.currentPrice),
       newPrice |-> newState.currentPrice,
       feeCharged |-> cfg.viewingFee,
       state |-> newState, error |-> NoError]

\* the SOLD result
viewSold(s) ==
  [success |-> FALSE, status |-> "SOLD", expiresAt |-> NullTime,
   queuePosition |-> NoPosition, dropAmount |-> 0, newPrice |-> s.currentPrice,
   feeCharged |-> 0, state |-> s, error |-> ErrSold]

\* an applyView that makes the head of the queue wait like everybody else
applyViewHeadWaits(s, cfg, viewerId, at) ==
  IF s.isSold THEN viewSold(s)
  ELSE IF isLocked(s, at)
    THEN IF s.activeViewerId = viewerId
           THEN holderPoll(s, at)
           ELSE queueBehindLock(s, viewerId)
  ELSE IF Len(s.queue) > 0
    THEN queueBehindHead(s, viewerId)
  ELSE grantLock(s, cfg, viewerId, at)

\* applyView(state, config, viewerId), with Date.now() passed as at
applyView(s, cfg, viewerId, at) ==
  IF s.isSold THEN viewSold(s)
  ELSE IF isLocked(s, at)
    THEN IF s.activeViewerId = viewerId
           THEN holderPoll(s, at)
           ELSE queueBehindLock(s, viewerId)
  ELSE IF Len(s.queue) > 0 /\ s.queue[1] # viewerId
    THEN queueBehindHead(s, viewerId)
  ELSE grantLock(s, cfg, viewerId, at)

\* a release that any caller can trigger
releaseLockAnyone(s, viewerId) ==
  [s EXCEPT !.activeViewerId = Null, !.activeViewExpiresAt = NullTime]

\* a release that hands the running window to the head of the queue
releaseLockPromotes(s, viewerId) ==
  IF s.activeViewerId = viewerId
    THEN IF Len(s.queue) > 0
           THEN [s EXCEPT !.activeViewerId = s.queue[1], !.queue = Tail(s.queue)]
           ELSE [s EXCEPT !.activeViewerId = Null, !.activeViewExpiresAt = NullTime]
    ELSE s

\* a release that also drops the head of the queue
releaseLockPopsHead(s, viewerId) ==
  IF s.activeViewerId = viewerId
    THEN [s EXCEPT !.activeViewerId = Null, !.activeViewExpiresAt = NullTime,
                   !.queue = IF Len(s.queue) > 0 THEN Tail(s.queue) ELSE s.queue]
    ELSE s

\* a release that takes a waiting caller out of the queue
releaseLockLeavesQueue(s, viewerId) ==
  IF s.activeViewerId = viewerId
    THEN [s EXCEPT !.activeViewerId = Null, !.activeViewExpiresAt = NullTime]
    ELSE [s EXCEPT !.queue = dequeue(s.queue, viewerId)]

\* releaseLock(state, viewerId)
releaseLock(s, viewerId) ==
  IF s.activeViewerId = viewerId
    THEN [s EXCEPT !.activeViewerId = Null, !.activeViewExpiresAt = NullTime]
    ELSE s

\* a purchase test that compares the expiry the wrong way round
lockedByOtherReversed(s, buyerId, at) ==
  /\ s.activeViewerId # Null
  /\ s.activeViewerId # buyerId
  /\ s.activeViewExpiresAt # NullTime
  /\ s.activeViewExpiresAt < at

\* activeViewerId && (activeViewerId !== buyerId && activeViewExpiresAt && activeViewExpiresAt > now)
lockedByOther(s, buyerId, at) ==
  /\ s.activeViewerId # Null
  /\ s.activeViewerId # buyerId
  /\ s.activeViewExpiresAt # NullTime
  /\ s.activeViewExpiresAt > at

\* the failure value of applyPurchase
purchaseRejected(s, err) ==
  [success |-> FALSE, soldPrice |-> 0, totalSupplierRevenue |-> 0,
   totalQomoRevenue |-> 0, state |-> s, error |-> err]

\* a sale that forgets the waiting actors
soldStateKeepsQueue(s, buyerId) ==
  [s EXCEPT !.isSold = TRUE, !.buyerId = buyerId, !.soldPrice = s.currentPrice,
            !.activeViewerId = Null, !.activeViewExpiresAt = NullTime]

\* a sale that leaves the viewing lock in place
soldStateKeepsLock(s, buyerId) ==
  [s EXCEPT !.isSold = TRUE, !.buyerId = buyerId, !.soldPrice = s.currentPrice,
            !.queue = <<>>]

\* the terminal state of a sale
soldState(s, buyerId) ==
  [s EXCEPT !.isSold = TRUE, !.buyerId = buyerId, !.soldPrice = s.currentPrice,
            !.activeViewerId = Null, !.activeViewExpiresAt = NullTime,
            !.queue = <<>>]

\* a settlement that pays the supplier the whole platform revenue
settleWholePlatform(s, buyerId) ==
  [success |-> TRUE, soldPrice |-> s.currentPrice,
   totalSupplierRevenue |-> roundMoney(s.currentPrice + s.totalPlatformRevenue),
   totalQomoRevenue |-> s.totalQomoRevenue,
   state |-> soldState(s, buyerId), error |-> NoError]

\* the success value of applyPurchase
settle(s, buyerId) ==
  [success |-> TRUE, soldPrice |-> s.currentPrice,
   totalSupplierRevenue |-> roundMoney(s.currentPrice + s.totalSupplierPlatformRevenue),
   totalQomoRevenue |-> s.totalQomoRevenue,
   state |-> soldState(s, buyerId), error |-> NoError]

\* a purchase that does not look at isSold
applyPurchaseNoSoldCheck(s, cfg, buyerId, at) ==
  IF lockedByOther(s, buyerId, at) THEN purchaseRejected(s, ErrLocked)
  ELSE settle(s, buyerId)

\* applyPurchase(state, config, buyerId), with Date.now() passed as at
applyPurchase(s, cfg, buyerId, at) ==
  IF s.isSold THEN purchaseRejected(s, ErrSold)
  ELSE IF lockedByOther(s, buyerId, at) THEN purchaseRejected(s, ErrLocked)
  ELSE settle(s, buyerId)

\* ----------------------------------------------------------------- history
NoTicket == 0

\* the call was a grant: a fee-charging LOCKED result
IsGrant(s, res) == res.state.totalViews = s.totalViews + 1

\* the places in the queue, numbered in the order in which they were taken
TicketsAfter(s, res) ==
  [a \in Actors |->
     IF ~Includes(res.state.queue, a) THEN NoTicket
     ELSE IF Includes(s.queue, a) THEN ticket[a]
     ELSE tickets + 1]

\* the result is a LOCKED result that charged the viewing fee
IsCharged(res) == res.status = "LOCKED" /\ res.feeCharged > 0

TicketCountAfter(s, res) ==
  IF \E a \in Actors : Includes(res.state.queue, a) /\ ~Includes(s.queue, a)
    THEN tickets + 1 ELSE tickets

\* ------------------------------------------------------------------ actions
\* the products of the store: ids of config/products
Products == {"iphone17", "ps5slim"}

\* configs.set(config.productId, config)
configs == [productId \in Products |->
              IF productId = "iphone17" THEN CfgReference ELSE CfgFloor]

\* the callers that may overlap
Callers == {"viewer_1", "viewer_2"}

\* the store and the overlapping callers are not part of the one-product system
StoreOff ==
  /\ db = [productId \in Products |-> initDrop(configs[productId])]
  /\ folded = db
  /\ call = [op |-> "init", productId |-> Null, actor |-> Null, ok |-> TRUE]

RaceOff ==
  /\ atomic = TRUE
  /\ pc = [c \in Callers |-> "idle"]
  /\ loaded = [c \in Callers |-> Null]
  /\ returned = [c \in Callers |-> Null]
  /\ raced = FALSE

Init ==
  /\ config \in Configs
  /\ state = initDrop(config)
  /\ now = 0
  /\ last = [op |-> "init", actor |-> Null, res |-> [state |-> state]]
  /\ held = [a \in Actors |-> NullTime]
  /\ ticket = [a \in Actors |-> NoTicket]
  /\ tickets = 0
  /\ shares = 0
  /\ pendingHead = Null
  /\ charges = 0
  /\ leftWaiting = {}
  /\ gaveUp = {}
  /\ StoreOff
  /\ RaceOff

\* POST /view : load, applyView, always store
postView(viewerId) ==
  LET result == applyView(state, config, viewerId, now)
  IN  /\ result.state.totalViews <= MaxViews
      /\ state' = result.state
      /\ last' = [op |-> "view", actor |-> viewerId, res |-> result]
      /\ held' = IF IsGrant(state, result)
                   THEN [held EXCEPT ![viewerId] = result.expiresAt]
                   ELSE held
      /\ ticket' = TicketsAfter(state, result)
      /\ tickets' = TicketCountAfter(state, result)
      /\ shares' = IF IsGrant(state, result)
                     THEN shares + supplierShare(config) + qomoShare(config)
                     ELSE shares
      /\ pendingHead' = IF IsGrant(state, result) THEN Null ELSE pendingHead
      /\ charges' = IF IsCharged(result) THEN charges + 1 ELSE charges
      /\ gaveUp' = IF IsCharged(result) THEN gaveUp \ {viewerId} ELSE gaveUp
      /\ UNCHANGED <<config, now, leftWaiting, storeVars, raceVars>>

\* POST /cancel : load, releaseLock, store
postCancel(viewerId) ==
  LET newState == releaseLock(state, viewerId)
  IN  /\ state' = newState
      /\ last' = [op |-> "cancel", actor |-> viewerId,
                  res |-> [state |-> newState,
                           released |-> state.activeViewerId = viewerId]]
      /\ held' = [held EXCEPT ![viewerId] = NullTime]
      /\ pendingHead' = IF state.activeViewerId = viewerId /\ Len(state.queue) > 0
                          THEN state.queue[1] ELSE pendingHead
      /\ gaveUp' = IF state.activeViewerId = viewerId
                     THEN gaveUp \cup {viewerId} ELSE gaveUp
      /\ UNCHANGED <<config, now, ticket, tickets, shares, charges, leftWaiting,
                     storeVars, raceVars>>

\* POST /buy : load, applyPurchase, store on success only
postBuy(buyerId) ==
  LET result == applyPurchase(state, config, buyerId, now)
  IN  /\ state' = IF result.success THEN result.state ELSE state
      /\ last' = [op |-> "buy", actor |-> buyerId, res |-> result]
      /\ held' = IF result.success THEN [a \in Actors |-> NullTime] ELSE held
      /\ ticket' = IF result.success THEN [a \in Actors |-> NoTicket] ELSE ticket
      /\ pendingHead' = IF result.success THEN Null ELSE pendingHead
      /\ leftWaiting' = IF result.success THEN Range(state.queue) ELSE leftWaiting
      /\ gaveUp' = IF result.success THEN {} ELSE gaveUp
      /\ UNCHANGED <<config, now, tickets, shares, charges, storeVars, raceVars>>

\* the wall clock moves on
Tick ==
  /\ now < MaxTicks * TickStep
  /\ now' = now + TickStep
  /\ last' = [op |-> "tick", actor |-> Null, res |-> [state |-> state]]
  /\ UNCHANGED <<config, state, held, ticket, tickets, shares, pendingHead,
                 charges, leftWaiting, gaveUp, storeVars, raceVars>>

View == \E viewerId \in Actors : postView(viewerId)
Cancel == \E viewerId \in Actors : postCancel(viewerId)
Buy == \E buyerId \in Actors : postBuy(buyerId)

Next == View \/ Cancel \/ Buy \/ Tick

Spec == Init /\ [][Next]_vars

\* ------------------------------------------------------------- scheduling
\* the page of a waiting viewer polls postView every 2 seconds, and goes on
\* polling after a sale until it has been told SOLD
Poll(viewerId) ==
  /\ Includes(state.queue, viewerId) \/ viewerId \in leftWaiting
  /\ postView(viewerId)

\* a running lock comes to its end: the clock reaches the expiry, or the
\* holder leaves the page and cancels
LockEnds ==
  \/ Tick
  \/ \E viewerId \in Callers : state.activeViewerId = viewerId /\ postCancel(viewerId)

\* the calls of two viewers
LiveView == \E viewerId \in Callers : postView(viewerId)
LiveCancel == \E viewerId \in Callers : postCancel(viewerId)
LiveBuy == \E buyerId \in Callers : postBuy(buyerId)

LiveNext == LiveView \/ LiveCancel \/ LiveBuy \/ Tick

\* the one-product system with waiting viewers that keep polling and locks
\* that come to an end
LiveSpec ==
  /\ Init
  /\ [][LiveNext]_vars
  /\ WF_vars(LockEnds)
  /\ \A viewerId \in Callers : WF_vars(Poll(viewerId))

\* ------------------------------------------------------- the state store
\* the one-product system is not part of the store
EngineOff ==
  /\ config = CfgReference
  /\ state = initDrop(config)
  /\ last = [op |-> "init", actor |-> Null, res |-> [state |-> state]]
  /\ held = [a \in Actors |-> NullTime]
  /\ ticket = [a \in Actors |-> NoTicket]
  /\ tickets = 0
  /\ shares = 0
  /\ pendingHead = Null
  /\ charges = 0
  /\ leftWaiting = {}
  /\ gaveUp = {}

\* Object.values(productsData).forEach: configs.set, db.set(initDrop(config))
StoreInit ==
  /\ now = 0
  /\ db = [productId \in Products |-> initDrop(configs[productId])]
  /\ folded = db
  /\ call = [op |-> "init", productId |-> Null, actor |-> Null, ok |-> TRUE]
  /\ EngineOff
  /\ RaceOff

\* a postView that stores the new state only when the view succeeded
storePostViewOnSuccess(productId, viewerId) ==
  LET result == applyView(db[productId], configs[productId], viewerId, now)
  IN  /\ result.state.totalViews <= MaxStoreViews
      /\ db' = IF result.success THEN [db EXCEPT ![productId] = result.state] ELSE db
      /\ folded' = [folded EXCEPT ![productId] =
                      applyView(folded[productId], configs[productId], viewerId, now).state]
      /\ call' = [op |-> "view", productId |-> productId, actor |-> viewerId,
                  ok |-> result.success]
      /\ UNCHANGED <<now, engineVars, raceVars>>

\* postView(productId, viewerId)
storePostView(productId, viewerId) ==
  LET result == applyView(db[productId], configs[productId], viewerId, now)
  IN  /\ result.state.totalViews <= MaxStoreViews
      /\ db' = [db EXCEPT ![productId] = result.state]
      /\ folded' = [folded EXCEPT ![productId] =
                      applyView(folded[productId], configs[productId], viewerId, now).state]
      /\ call' = [op |-> "view", productId |-> productId, actor |-> viewerId,
                  ok |-> result.success]
      /\ UNCHANGED <<now, engineVars, raceVars>>

\* a cancel that releases the caller's lock on every product
storePostCancelEverywhere(productId, viewerId) ==
  /\ db' = [q \in Products |-> releaseLock(db[q], viewerId)]
  /\ folded' = [folded EXCEPT ![productId] = releaseLock(folded[productId], viewerId)]
  /\ call' = [op |-> "cancel", productId |-> productId, actor |-> viewerId,
              ok |-> db[productId].activeViewerId = viewerId]
  /\ UNCHANGED <<now, engineVars, raceVars>>

\* postCancel(productId, viewerId)
storePostCancel(productId, viewerId) ==
  LET newState == releaseLock(db[productId], viewerId)
  IN  /\ db' = [db EXCEPT ![productId] = newState]
      /\ folded' = [folded EXCEPT ![productId] = releaseLock(folded[productId], viewerId)]
      /\ call' = [op |-> "cancel", productId |-> productId, actor |-> viewerId,
                  ok |-> db[productId].activeViewerId = viewerId]
      /\ UNCHANGED <<now, engineVars, raceVars>>

\* postBuy(productId, buyerId)
storePostBuy(productId, buyerId) ==
  LET result == applyPurchase(db[productId], configs[productId], buyerId, now)
  IN  /\ db' = IF result.success THEN [db EXCEPT ![productId] = result.state] ELSE db
      /\ folded' = [folded EXCEPT ![productId] =
                      applyPurchase(folded[productId], configs[productId], buyerId, now).state]
      /\ call' = [op |-> "buy", productId |-> productId, actor |-> buyerId,
                  ok |-> result.success]
      /\ UNCHANGED <<now, engineVars, raceVars>>

\* getStatus(productId): a copy of the stored state goes out, the store stays
storeGetStatus(productId) ==
  /\ call' = [op |-> "status", productId |-> productId, actor |-> Null, ok |-> TRUE]
  /\ UNCHANGED <<now, db, folded, engineVars, raceVars>>

\* the wall clock moves on
StoreTick ==
  /\ now < MaxTicks * TickStep
  /\ now' = now + TickStep
  /\ call' = [op |-> "tick", productId |-> Null, actor |-> Null, ok |-> TRUE]
  /\ UNCHANGED <<db, folded, engineVars, raceVars>>

StoreView == \E productId \in Products, viewerId \in Callers : storePostView(productId, viewerId)
StoreCancel == \E productId \in Products, viewerId \in Callers : storePostCancel(productId, viewerId)
StoreBuy == \E productId \in Products, buyerId \in Callers : storePostBuy(productId, buyerId)
StoreStatus == \E productId \in Products : storeGetStatus(productId)

StoreNext == StoreView \/ StoreCancel \/ StoreBuy \/ StoreStatus \/ StoreTick

StoreSpec == StoreInit /\ [][StoreNext]_vars

\* ------------------------------------------------- overlapping callers
\* the store with one product and no overlapping call yet
RaceInit ==
  /\ config \in Configs
  /\ state = initDrop(config)
  /\ now = 0
  /\ last = [op |-> "init", actor |-> Null, res |-> [state |-> state]]
  /\ held = [a \in Actors |-> NullTime]
  /\ ticket = [a \in Actors |-> NoTicket]
  /\ tickets = 0
  /\ shares = 0
  /\ pendingHead = Null
  /\ charges = 0
  /\ leftWaiting = {}
  /\ gaveUp = {}
  /\ StoreOff
  /\ atomic \in BOOLEAN
  /\ pc = [c \in Callers |-> "idle"]
  /\ loaded = [c \in Callers |-> Null]
  /\ returned = [c \in Callers |-> Null]
  /\ raced = FALSE

\* the state read is unsold, has no running lock and nobody waiting
Free(s, at) ==
  /\ ~s.isSold
  /\ s.queue = <<>>
  /\ ~(s.activeViewerId # Null /\ s.activeViewExpiresAt > at)

\* a load that starts although another call is between its load and its store
loadUnguarded(c) ==
  /\ pc[c] = "idle"
  /\ pc' = [pc EXCEPT ![c] = "loaded"]
  /\ loaded' = [loaded EXCEPT ![c] = state]
  /\ raced' = (raced \/ \E d \in Callers \ {c} :
                          pc[d] = "loaded" /\ loaded[d] = state /\ Free(state, now))
  /\ UNCHANGED <<now, engineVars, storeVars, atomic, returned>>

\* const state = db.get(productId); when calls are atomic, only with no other
\* call between its load and its store
load(c) ==
  /\ pc[c] = "idle"
  /\ atomic => \A d \in Callers : pc[d] # "loaded"
  /\ pc' = [pc EXCEPT ![c] = "loaded"]
  /\ loaded' = [loaded EXCEPT ![c] = state]
  /\ raced' = (raced \/ \E d \in Callers \ {c} :
                          pc[d] = "loaded" /\ loaded[d] = state /\ Free(state, now))
  /\ UNCHANGED <<now, engineVars, storeVars, atomic, returned>>

\* const result = applyView(state, config, viewerId); db.set(productId, result.state)
computeStore(c) ==
  LET result == applyView(loaded[c], config, c, now)
  IN  /\ pc[c] = "loaded"
      /\ result.state.totalViews <= MaxViews
      /\ state' = result.state
      /\ returned' = [returned EXCEPT ![c] = result]
      /\ pc' = [pc EXCEPT ![c] = "done"]
      /\ held' = IF IsCharged(result)
                   THEN [held EXCEPT ![c] = result.expiresAt] ELSE held
      /\ UNCHANGED <<now, config, last, ticket, tickets, shares, pendingHead,
                     charges, leftWaiting, gaveUp, storeVars, atomic, loaded, raced>>

\* return result
respond(c) ==
  /\ pc[c] = "done"
  /\ pc' = [pc EXCEPT ![c] = "idle"]
  /\ loaded' = [loaded EXCEPT ![c] = Null]
  /\ returned' = [returned EXCEPT ![c] = Null]
  /\ raced' = FALSE
  /\ UNCHANGED <<now, engineVars, storeVars, atomic>>

\* the wall clock moves on between calls: overlapping calls are simultaneous
RaceTick ==
  /\ \A c \in Callers : pc[c] = "idle"
  /\ now < MaxTicks * TickStep
  /\ now' = now + TickStep
  /\ UNCHANGED <<engineVars, storeVars, raceVars>>

Load == \E c \in Callers : load(c)
ComputeStore == \E c \in Callers : computeStore(c)
Respond == \E c \in Callers : respond(c)

RaceNext == Load \/ ComputeStore \/ Respond \/ RaceTick

RaceSpec == RaceInit /\ [][RaceNext]_vars

\* ------------------------------------------------------------------ claims

\* C1  Price floor: after every applyView, whatever the config and whatever
\* calls came before, state.currentPrice >= config.minPrice.
PriceFloor ==
  last.op = "view" => state.currentPrice >= config.minPrice

\* C2  At-most-one lock: no two actors hold, at the same instant, a granted
\* lock that has neither expired nor been released nor ended by the sale; so a
\* grant to B never falls inside the window of a lock granted to A.
AtMostOneLock ==
  \A a, b \in Actors : (held[a] > now /\ held[b] > now) => a = b

\* C2 witness: B asked while A's granted lock was running and was queued.
AtMostOneLockWitness ==
  /\ last.op = "view"
  /\ last.res.status = "QUEUED"
  /\ \E a \in Actors : a # last.actor /\ held[a] > now
  /\ held[last.actor] <= now

\* C3  No double charge: an applyView by the lock holder while the lock is
\* active succeeds with LOCKED, feeCharged 0, dropAmount 0, the expiry of the
\* original grant, and returns and stores the state unchanged.
NoDoubleCharge ==
  [][\A v \in Actors :
       (/\ last'.op = "view"
        /\ last'.actor = v
        /\ state.activeViewerId = v
        /\ state.activeViewExpiresAt > now)
       => (/\ last'.res.success
           /\ last'.res.status = "LOCKED"
           /\ last'.res.feeCharged = 0
           /\ last'.res.dropAmount = 0
           /\ last'.res.expiresAt = held[v]
           /\ last'.res.state = state
           /\ state' = state)]_vars

\* C3 witness: the holder polled some time after the grant, inside the window.
NoDoubleChargeWitness ==
  /\ last.op = "view"
  /\ last.res.status = "LOCKED"
  /\ last.res.feeCharged = 0
  /\ last.actor = state.activeViewerId
  /\ now > 0
  /\ state.activeViewExpiresAt > now
  /\ state.totalViews = 1

\* C4  FIFO fairness: when A took its place in the queue before B and both
\* are still waiting, no grant goes to B.
FifoFairness ==
  [][state'.totalViews = state.totalViews + 1 =>
       \A a, b \in Actors :
         (/\ ticket[a] # NoTicket
          /\ ticket[b] # NoTicket
          /\ ticket[a] < ticket[b]) => state'.activeViewerId # b]_vars

\* C4 witness: with no lock left, B asked while A, queued earlier, was still
\* waiting, and B was sent back to the queue.
FifoFairnessWitness ==
  /\ last.op = "view"
  /\ last.res.status = "QUEUED"
  /\ state.activeViewerId = Null
  /\ \E a \in Actors : ticket[a] # NoTicket /\ ticket[a] < ticket[last.actor]

\* C5  Purchase requires the lock: every successful applyPurchase is made by
\* the actor who holds a non-expired lock at the time of the call.
PurchaseRequiresLock ==
  [][(last'.op = "buy" /\ last'.res.success)
       => (state.activeViewerId = last'.actor /\ state.activeViewExpiresAt > now)]_vars

\* C6  Purchase blocked during another actor's window: applyPurchase while a
\* lock is active and held by someone else fails with the locked-by-other
\* error and leaves the state as it was.
PurchaseBlocked ==
  [][\A b \in Actors :
       (/\ last'.op = "buy"
        /\ last'.actor = b
        /\ state.activeViewerId # Null
        /\ state.activeViewerId # b
        /\ state.activeViewExpiresAt > now)
       => (/\ ~last'.res.success
           /\ last'.res.error = ErrLocked
           /\ last'.res.state = state
           /\ state' = state)]_vars

\* C6 witness: a purchase was refused inside somebody else's window.
PurchaseBlockedWitness ==
  /\ last.op = "buy"
  /\ ~last.res.success
  /\ last.res.error = ErrLocked
  /\ state.activeViewerId \in Actors \ {last.actor}
  /\ state.activeViewExpiresAt > now
  /\ ~state.isSold

\* C7  Sold is terminal and frozen: once isSold, no call changes currentPrice,
\* soldPrice, buyerId, totalViews or a revenue total, isSold stays true,
\* activeViewerId stays null and the queue stays empty.
SoldIsTerminal ==
  [][state.isSold =>
       (/\ state'.isSold
        /\ state'.currentPrice = state.currentPrice
        /\ state'.soldPrice = state.soldPrice
        /\ state'.buyerId = state.buyerId
        /\ state'.totalViews = state.totalViews
        /\ state'.totalPlatformRevenue = state.totalPlatformRevenue
        /\ state'.totalSupplierPlatformRevenue = state.totalSupplierPlatformRevenue
        /\ state'.totalQomoRevenue = state.totalQomoRevenue
        /\ state.activeViewerId = Null /\ state'.activeViewerId = Null
        /\ state.queue = <<>> /\ state'.queue = <<>>)]_vars

\* C7 witness: a cancel arrived after a sale that followed paid views with
\* actors waiting.
SoldIsTerminalWitness ==
  /\ state.isSold
  /\ last.op = "cancel"
  /\ state.totalViews = 2

\* C8  Operations after sale are rejected: on a sold product applyView fails
\* with SOLD and no fee, applyPurchase fails with the already-sold error, and
\* both return the state they were given.
AfterSaleRejected ==
  [][state.isSold =>
       (/\ last'.op = "view" =>
             (/\ ~last'.res.success
              /\ last'.res.status = "SOLD"
              /\ last'.res.feeCharged = 0
              /\ last'.res.state = state
              /\ state' = state)
        /\ last'.op = "buy" =>
             (/\ ~last'.res.success
              /\ last'.res.error = ErrSold
              /\ last'.res.state = state
              /\ state' = state))]_vars

\* C8 witness: the buyer tried to buy a second time.
AfterSaleRejectedWitness ==
  /\ state.isSold
  /\ last.op = "buy"
  /\ ~last.res.success
  /\ last.actor = state.buyerId

\* C9  Queue well-formedness: the queue has no duplicates and does not
\* contain activeViewerId.
QueueWellFormed ==
  /\ \A i, j \in 1..Len(state.queue) : state.queue[i] = state.queue[j] => i = j
  /\ ~Includes(state.queue, state.activeViewerId)

\* C9 witness: the head of the queue was granted the lock while another
\* actor stayed behind it.
QueueWellFormedWitness ==
  /\ last.op = "view"
  /\ last.res.status = "LOCKED"
  /\ last.res.feeCharged > 0
  /\ state.activeViewerId = last.actor
  /\ Len(state.queue) >= 1
  /\ state.totalViews >= 2

SettlementConservation ==
  state.totalSupplierPlatformRevenue + state.totalQomoRevenue = shares

\* C11 witness: after two grants, a queueing, a release and the sale.
SettlementConservationWitness ==
  /\ state.isSold
  /\ state.totalViews = 2
  /\ tickets >= 1
  /\ shares > 0

\* C12  Idempotent cancel: releaseLock by an actor who is not activeViewerId
\* returns, and the store keeps, a state identical to the input.
IdempotentCancel ==
  [][(last'.op = "cancel" /\ last'.actor # state.activeViewerId)
       => (last'.res.state = state /\ state' = state)]_vars

\* C12 witness: a queued actor cancelled while somebody else held the lock.
IdempotentCancelWitness ==
  /\ last.op = "cancel"
  /\ ~last.res.released
  /\ Includes(state.queue, last.actor)
  /\ state.activeViewerId \in Actors \ {last.actor}
  /\ state.activeViewExpiresAt > now

\* the state of the reference product after viewer_1's view
AfterFirstView(s) ==
  /\ s.totalViews = 1
  /\ s.activeViewerId = "viewer_1"
  /\ ~s.isSold

PriceMonotone ==
  /\ [](state.currentPrice <= config.basePrice)
  /\ [][~state.isSold => state'.currentPrice <= state.currentPrice]_vars

\* C15  No fee unit lost or duplicated in the split: when the supplier's and
\* the operator's shares of the platform revenue add up to 1, after every
\* operation totalSupplierPlatformRevenue + totalQomoRevenue =
\* totalPlatformRevenue.
NoFeeUnitLost ==
  config.supplierShareOfPlatform + config.qomoShareOfPlatform = Percent
    => state.totalSupplierPlatformRevenue + state.totalQomoRevenue
         = state.totalPlatformRevenue

\* C16  Lock grant transition: applyView on an unsold product with no active
\* lock, the queue empty or the caller at its head, succeeds with LOCKED,
\* feeCharged = viewingFee, expiresAt = now + LOCK_DURATION; the new state has
\* the caller as activeViewerId, one more view, each revenue total raised by
\* the view's rounded share, and the caller taken off the queue, the others
\* keeping their order.
LockGrantTransition ==
  [][\A v \in Actors :
       (/\ last'.op = "view"
        /\ last'.actor = v
        /\ ~state.isSold
        /\ ~(state.activeViewerId # Null /\ state.activeViewExpiresAt > now)
        /\ (state.queue = <<>> \/ state.queue[1] = v))
       => (/\ last'.res.success
           /\ last'.res.status = "LOCKED"
           /\ last'.res.feeCharged = config.viewingFee
           /\ last'.res.expiresAt = now + 30000
           /\ last'.res.state = state'
           /\ state'.activeViewerId = v
           /\ state'.activeViewExpiresAt = now + 30000
           /\ state'.totalViews = state.totalViews + 1
           /\ state'.totalPlatformRevenue =
                state.totalPlatformRevenue + platformRevenue(config)
           /\ state'.totalSupplierPlatformRevenue =
                state.totalSupplierPlatformRevenue + supplierShare(config)
           /\ state'.totalQomoRevenue = state.totalQomoRevenue + qomoShare(config)
           /\ state'.queue = IF state.queue = <<>> THEN <<>> ELSE Tail(state.queue))]_vars

\* C16 witness: after the previous window ran out, the head of the queue was
\* granted the lock and the actor behind it stayed queued.
LockGrantTransitionWitness ==
  /\ last.op = "view"
  /\ last.res.status = "LOCKED"
  /\ last.res.feeCharged = config.viewingFee
  /\ last.res.expiresAt = now + 30000
  /\ now >= 30000
  /\ state.activeViewerId = last.actor
  /\ Len(state.queue) = 1
  /\ state.totalViews = 2
  /\ \E a \in Actors : a # last.actor /\ held[a] # NullTime

\* C17  Effective drop at the floor: every grant returns dropAmount = previous
\* currentPrice - new currentPrice with 0 <= dropAmount <= round(viewingFee *
\* priceDropShare); once currentPrice is minPrice a grant returns dropAmount 0
\* and leaves the price at minPrice, still charging the fee and accruing the
\* platform revenue shares.
EffectiveDrop ==
  [][state'.totalViews = state.totalViews + 1 =>
       (/\ last'.res.dropAmount = state.currentPrice - state'.currentPrice
        /\ 0 <= last'.res.dropAmount
        /\ last'.res.dropAmount <= priceDropAmount(config)
        /\ state.currentPrice = config.minPrice =>
             (/\ last'.res.dropAmount = 0
              /\ state'.currentPrice = config.minPrice
              /\ last'.res.feeCharged = config.viewingFee
              /\ state'.totalPlatformRevenue =
                   state.totalPlatformRevenue + platformRevenue(config)
              /\ state'.totalSupplierPlatformRevenue =
                   state.totalSupplierPlatformRevenue + supplierShare(config)
              /\ state'.totalQomoRevenue =
                   state.totalQomoRevenue + qomoShare(config)))]_vars

\* the sequence without the given actor, order kept
Without(queue, v) == SelectSeq(queue, LAMBDA id : id # v)

\* C18  QUEUED result semantics: a QUEUED result is returned exactly behind an
\* active lock of another actor or, with no active lock, behind a queue head
\* that is not the caller; the caller is appended at the tail if absent and
\* keeps its place otherwise, the others keep their order, queuePosition is
\* the caller's 1-based index in the returned queue, and feeCharged,
\* dropAmount are 0 with price, views and revenue totals unchanged.
QueuedSemantics ==
  [][\A v \in Actors :
       (last'.op = "view" /\ last'.actor = v /\ last'.res.status = "QUEUED")
       => (/\ \/ /\ state.activeViewerId \in Actors \ {v}
                 /\ state.activeViewExpiresAt > now
              \/ /\ ~(state.activeViewerId # Null /\ state.activeViewExpiresAt > now)
                 /\ Len(state.queue) > 0
                 /\ state.queue[1] # v
           /\ last'.res.state = state'
           /\ state'.queue = IF \E i \in 1..Len(state.queue) : state.queue[i] = v
                               THEN state.queue
                               ELSE state.queue \o <<v>>
           /\ Without(state'.queue, v) = Without(state.queue, v)
           /\ last'.res.queuePosition \in 1..Len(state'.queue)
           /\ state'.queue[last'.res.queuePosition] = v
           /\ last'.res.feeCharged = 0
           /\ last'.res.dropAmount = 0
           /\ state'.currentPrice = state.currentPrice
           /\ state'.totalViews = state.totalViews
           /\ state'.totalPlatformRevenue = state.totalPlatformRevenue
           /\ state'.totalSupplierPlatformRevenue = state.totalSupplierPlatformRevenue
           /\ state'.totalQomoRevenue = state.totalQomoRevenue)]_vars

\* C18 witness: with three actors waiting, the one in second place asked
\* again and was told its place.
QueuedSemanticsWitness ==
  /\ last.op = "view"
  /\ last.res.status = "QUEUED"
  /\ last.res.queuePosition = 2
  /\ Len(state.queue) = 3
  /\ state.queue[2] = last.actor
  /\ ticket[last.actor] < tickets

\* C19  Release frame: releaseLock by the actor in activeViewerId sets
\* activeViewerId and activeViewExpiresAt to null and leaves the queue, the
\* price, the view count, the revenue totals and isSold as they were.
ReleaseFrame ==
  [][(last'.op = "cancel" /\ last'.actor = state.activeViewerId)
       => (/\ last'.res.state = state'
           /\ state'.activeViewerId = Null
           /\ state'.activeViewExpiresAt = NullTime
           /\ state'.queue = state.queue
           /\ state'.currentPrice = state.currentPrice
           /\ state'.totalViews = state.totalViews
           /\ state'.totalPlatformRevenue = state.totalPlatformRevenue
           /\ state'.totalSupplierPlatformRevenue = state.totalSupplierPlatformRevenue
           /\ state'.totalQomoRevenue = state.totalQomoRevenue
           /\ state'.isSold = state.isSold)]_vars

\* C19 witness: the holder released while two actors were waiting.
ReleaseFrameWitness ==
  /\ last.op = "cancel"
  /\ last.res.released
  /\ state.activeViewerId = Null
  /\ Len(state.queue) = 2
  /\ state.totalViews = 1

\* C20  Eligibility after release: once the holder has released with a
\* non-empty queue, and until a grant or a purchase, an applyView by the actor
\* at the head of the queue is a fee-charging LOCKED result and an applyView by
\* anybody else is QUEUED.
EligibilityAfterRelease ==
  [][(pendingHead # Null /\ last'.op = "view") =>
       IF last'.actor = pendingHead
         THEN /\ last'.res.status = "LOCKED"
              /\ last'.res.feeCharged = config.viewingFee
              /\ state'.totalViews = state.totalViews + 1
              /\ state'.activeViewerId = pendingHead
         ELSE last'.res.status = "QUEUED"]_vars

\* C20 witness: after a release the former holder asked again and was queued,
\* then the head of the queue asked and got the lock inside the old window.
EligibilityAfterReleaseWitness ==
  /\ last.op = "view"
  /\ last.res.status = "LOCKED"
  /\ last.res.feeCharged = config.viewingFee
  /\ state.totalViews = 2
  /\ now = 0
  /\ Len(state.queue) >= 1
  /\ \E a \in Actors : Includes(state.queue, a) /\ ticket[a] > ticket[state.queue[1]]

PurchaseClears ==
  [][/\ (last'.op = "buy" /\ last'.res.success) =>
           /\ last'.res.state.activeViewerId = Null
           /\ last'.res.state.activeViewExpiresAt = NullTime
           /\ last'.res.state.queue = <<>>
           /\ state' = last'.res.state
           /\ leftWaiting' = Range(state.queue)
     /\ \A v \in leftWaiting :
           (last'.op = "view" /\ last'.actor = v) =>
             /\ last'.res.status = "SOLD"
             /\ ~last'.res.success
             /\ last'.res.feeCharged = 0
             /\ state'.activeViewerId = Null
             /\ state'.activeViewExpiresAt = NullTime
             /\ state'.queue = <<>>
             /\ state'.totalViews = state.totalViews
    ]_vars

\* an actor that was waiting when the product was sold has called applyView again
PurchaseClearsWitness ==
  /\ last.op = "view"
  /\ last.actor \in leftWaiting
  /\ Cardinality(leftWaiting) = 2
  /\ last.res.status = "SOLD"

\* C23: a failed applyView (SOLD or QUEUED) and a failed applyPurchase return a
\* state that differs from the input at most in the queue and the lock
\* fields: price, view count, the three revenue totals and the sale facts are
\* the same; the queue only gains the caller; and the holder and expiry of a
\* lock that is still active are the same.
FailuresFrame ==
  [][(last'.op \in {"view", "buy"} /\ ~last'.res.success) =>
       LET r == last'.res.state
           active == state.activeViewerId # Null /\ state.activeViewExpiresAt > now
       IN  /\ r.currentPrice = state.currentPrice
           /\ r.totalViews = state.totalViews
           /\ r.totalPlatformRevenue = state.totalPlatformRevenue
           /\ r.totalSupplierPlatformRevenue = state.totalSupplierPlatformRevenue
           /\ r.totalQomoRevenue = state.totalQomoRevenue
           /\ r.isSold = state.isSold
           /\ r.buyerId = state.buyerId
           /\ r.soldPrice = state.soldPrice
           /\ r.queue \in {state.queue, Append(state.queue, last'.actor)}
           /\ \/ r.activeViewerId = state.activeViewerId
                 /\ r.activeViewExpiresAt = state.activeViewExpiresAt
              \/ ~active /\ r.activeViewerId = Null /\ r.activeViewExpiresAt = NullTime
           /\ last'.op = "buy" => r = state
    ]_vars

\* a call failed by joining the queue behind a lock that is still running
FailuresFrameWitness ==
  /\ last.op = "view"
  /\ ~last.res.success
  /\ last.res.status = "QUEUED"
  /\ last.res.queuePosition = 2
  /\ state.activeViewerId # Null
  /\ state.activeViewExpiresAt > now

\* C27: charge accounting.  In every reachable state totalViews is the number
\* of fee-charging LOCKED results returned so far, totalPlatformRevenue is
\* totalViews * round(viewingFee * platformShare), and, when basePrice >=
\* minPrice, currentPrice is max(minPrice, basePrice - totalViews *
\* round(viewingFee * priceDropShare)).
ChargeAccounting ==
  LET drop == roundMoney(Times(config.viewingFee, config.priceDropShare))
      dropped == config.basePrice - state.totalViews * drop
  IN  /\ state.totalViews = charges
      /\ state.totalPlatformRevenue =
           state.totalViews * roundMoney(Times(config.viewingFee, config.platformShare))
      /\ config.basePrice >= config.minPrice =>
           state.currentPrice =
             IF dropped < config.minPrice THEN config.minPrice ELSE dropped

\* C29: queue removal only at the head.  An actor leaves the queue only by
\* being granted the lock, which happens only when it is at the head, or by
\* the sale; a release leaves the queue as it is; the 1-based position of an
\* actor that stays never increases; and while an unsold product has a
\* non-empty queue only the actor at its head is ever granted the lock.
QueueLeavesAtHead ==
  [][/\ \A a \in Range(state.queue) :
          IF Includes(state'.queue, a)
            THEN IndexOf(state'.queue, a) <= IndexOf(state.queue, a)
            ELSE \/ last'.op = "buy" /\ last'.res.success /\ state'.isSold
                 \/ /\ last'.op = "view"
                    /\ last'.actor = a
                    /\ IsCharged(last'.res)
                    /\ state.queue[1] = a
                    /\ state'.activeViewerId = a
     /\ last'.op = "cancel" => state'.queue = state.queue
     /\ (/\ last'.op = "view"
         /\ IsCharged(last'.res)
         /\ ~state.isSold
         /\ state.queue # <<>>) => last'.actor = state.queue[1]
    ]_vars

\* long after the lock ran out, with the head silent, an actor behind the head
\* asked again and was kept waiting
QueueLeavesAtHeadWitness ==
  /\ last.op = "view"
  /\ last.res.status = "QUEUED"
  /\ Len(state.queue) >= 2
  /\ last.actor # state.queue[1]
  /\ state.activeViewerId = Null
  /\ \E a \in Actors : held[a] # NullTime /\ held[a] < now

\* the actor held a lock that has run out, or released its lock and was not
\* granted one since
FormerHolder(v) ==
  \/ held[v] # NullTime /\ held[v] <= now
  \/ v \in gaveUp

\* the result and the new state of a fresh, fee-charging grant to v
FreshGrant(v) ==
  LET drop == roundMoney(Times(config.viewingFee, config.priceDropShare))
      raw == state.currentPrice - drop
  IN  /\ last'.res.status = "LOCKED"
      /\ last'.res.success
      /\ last'.res.feeCharged = config.viewingFee
      /\ last'.res.expiresAt = now + LOCK_DURATION
      /\ state'.totalViews = state.totalViews + 1
      /\ state'.currentPrice =
           roundMoney(IF raw < config.minPrice THEN config.minPrice ELSE raw)
      /\ state'.activeViewerId = v
      /\ state'.activeViewExpiresAt = now + LOCK_DURATION

\* C30 as stated: when a former lock holder calls applyView after its lock has
\* expired or been released, with an empty queue it is granted a fresh lock
\* and charged again (totalViews + 1, price step applied again, expiresAt =
\* now + 30000), and with a non-empty queue headed by another actor it is
\* appended to the tail of the queue and the stale lock fields are cleared.
Reacquisition ==
  [][\A v \in Actors :
       (last'.op = "view" /\ last'.actor = v /\ ~state.isSold /\ FormerHolder(v)) =>
         /\ state.queue = <<>> => FreshGrant(v)
         /\ (state.queue # <<>> /\ state.queue[1] # v) =>
              /\ last'.res.status = "QUEUED"
              /\ state'.queue = Append(state.queue, v)
              /\ (state.activeViewExpiresAt <= now) =>
                   /\ state'.activeViewerId = Null
                   /\ state'.activeViewExpiresAt = NullTime
    ]_vars

\* C30, amended: the same, when no other actor holds an active lock at the
\* time of the call, and with "appended to the tail" read as: appended when
\* the actor is not yet waiting, left in its place when it already is.
ReacquisitionUnlocked ==
  [][\A v \in Actors :
       (/\ last'.op = "view"
        /\ last'.actor = v
        /\ ~state.isSold
        /\ FormerHolder(v)
        /\ ~(state.activeViewerId # Null /\ state.activeViewExpiresAt > now)) =>
         /\ state.queue = <<>> => FreshGrant(v)
         /\ (state.queue # <<>> /\ state.queue[1] # v) =>
              /\ last'.res.status = "QUEUED"
              /\ state'.queue = IF Includes(state.queue, v)
                                  THEN state.queue ELSE Append(state.queue, v)
              /\ state'.activeViewerId = Null
              /\ state'.activeViewExpiresAt = NullTime
    ]_vars

\* an actor whose lock had run out asked again behind a waiting actor: it is
\* last in the queue and the expired lock fields are gone
ReacquisitionUnlockedWitness ==
  /\ last.op = "view"
  /\ last.res.status = "QUEUED"
  /\ held[last.actor] # NullTime
  /\ held[last.actor] <= now
  /\ Len(state.queue) = 2
  /\ state.queue[2] = last.actor
  /\ state.activeViewerId = Null
  /\ state.totalViews = 1

\* C24: product independence.  A postView, postCancel, postBuy or getStatus
\* on product p leaves the stored state of every other product as it was, and
\* each product's stored state is what that product's own calls, run alone
\* at the same times, produce.
ProductIndependence ==
  /\ [][\A p \in Products :
          (call'.productId = p) => \A q \in Products \ {p} : db'[q] = db[q]]_vars
  /\ [](\A q \in Products : db[q] = folded[q])

\* the two products have gone different ways: one is sold, the other is
\* locked with somebody waiting
ProductIndependenceWitness ==
  /\ db["iphone17"].isSold
  /\ db["iphone17"].totalViews = 1
  /\ ~db["ps5slim"].isSold
  /\ db["ps5slim"].totalViews = 2
  /\ db["ps5slim"].queue # <<>>
  /\ call.productId = "ps5slim"

\* C25: unserialized callers race.  When two applyView calls read the same
\* unsold, unlocked state with an empty queue before either has stored its
\* result, both return a fee-charging LOCKED result and both windows run at
\* the same time, so two actors hold a lock at once; when every call is
\* atomic from load to store that never happens and at most one lock runs.
UnserializedRace ==
  /\ (raced /\ \A c \in Callers : pc[c] = "done") =>
        /\ \A c \in Callers :
              /\ returned[c].status = "LOCKED"
              /\ returned[c].success
              /\ returned[c].feeCharged = config.viewingFee
              /\ returned[c].expiresAt > now
              /\ held[c] = returned[c].expiresAt
        /\ \E c, d \in Callers : c # d /\ held[c] > now /\ held[d] > now
  /\ atomic =>
        /\ ~raced
        /\ \A c, d \in Callers : (held[c] > now /\ held[d] > now) => c = d

\* both overlapping callers have been told LOCKED
UnserializedRaceWitness ==
  /\ ~atomic
  /\ raced
  /\ \A c \in Callers : pc[c] = "done" /\ returned[c].status = "LOCKED"
  /\ state.totalViews = 1

\* C26: adapter persistence.  The stored state of every product is the fold
\* of applyView, releaseLock and applyPurchase over the calls made for it;
\* postView stores the state applyView returned, also when only the queue
\* changed; postBuy stores the returned state when the purchase succeeded and
\* leaves the store exactly as it was when it failed.
AdapterPersistence ==
  /\ [](db = folded)
  /\ [][\A p \in Products :
          /\ (call'.op = "view" /\ call'.productId = p) =>
                /\ db'[p] = applyView(db[p], configs[p], call'.actor, now).state
                /\ (~call'.ok /\ call'.actor \notin Range(db[p].queue)
                    /\ ~db[p].isSold) => db'[p].queue = Append(db[p].queue, call'.actor)
          /\ (call'.op = "buy" /\ call'.productId = p) =>
                IF call'.ok
                  THEN db'[p] = applyPurchase(db[p], configs[p], call'.actor, now).state
                  ELSE db' = db
          /\ (call'.op = "cancel" /\ call'.productId = p) =>
                db'[p] = releaseLock(db[p], call'.actor)]_vars

\* a failed purchase after a view that only changed the queue
AdapterPersistenceWitness ==
  /\ call.op = "buy"
  /\ ~call.ok
  /\ db[call.productId].queue = <<call.actor>>
  /\ db[call.productId].totalViews = 1

\* C28: queue progress.  With serialized calls, locks that always come to an
\* end and waiting actors that keep calling applyView, every actor that is
\* placed in the queue is eventually told LOCKED or SOLD.  (The model grants
\* MaxViews locks at most; an actor still waiting when they are used up is
\* outside what the model can show.)
QueueProgress ==
  \A a \in Callers :
    Includes(state.queue, a) ~>
      \/ /\ last.op = "view"
         /\ last.actor = a
         /\ last.res.status \in {"LOCKED", "SOLD"}
      \/ state.totalViews >= MaxViews

\* two actors have waited in the queue and both have been granted the lock
QueueProgressWitness ==
  /\ last.op = "view"
  /\ IsCharged(last.res)
  /\ ~state.isSold
  /\ tickets = 2
  /\ state.queue = <<>>
  /\ state.totalViews = 3

====
